---- MODULE Spec2Model ----
(***************************************************************************)
(* A model of the duty scheduler: models/Person.js (classes Person and     *)
(* DutySet), etc/helpers.js and etc/defaultConfig.js.                      *)
(*                                                                         *)
(* JavaScript arrays are functions on 0..length-1 (a sparse array is a     *)
(* function on the indices that were written).  JavaScript numbers that    *)
(* may be fractional are exact fractions [num, den] with den > 0; within   *)
(* the bounds of this model the doubles of the program order the same way. *)
(* The boolean entries of an availability are the strings "true" and       *)
(* "false", so that the undefined of an out-of-range read can stand beside *)
(* them.                                                                   *)
(***************************************************************************)
EXTENDS Integers, Sequences, FiniteSets, TLC

VARIABLES
    numDays,       \* DutySet.numDays
    numDutyTypes,  \* DutySet.numDutyTypes
    config,        \* DutySet.config, merged at construction
    persons,       \* DutySet.persons, array of Person objects
    pc,            \* position of the caller: "idle", "running", "done", "threw"
    dutyType,      \* outer loop counter of calculateSchedule
    i,             \* inner loop counter of calculateSchedule
    log,           \* the steps of the current call, as the debug log lists them
    returned,      \* the schedules returned by the finished calls, in order
    arr,           \* argument of the helper function a caller applies
    res,           \* its result
    helperPc,      \* "ready" before the helper is applied, "returned" after
    twin           \* a second DutySet, built with the same arguments as the first

vars == <<numDays, numDutyTypes, config, persons, pc, dutyType, i, log, returned,
          arr, res, helperPc, twin>>

dutySetVars == <<numDays, numDutyTypes, config, persons, pc, dutyType, i, log, returned>>

helperVars == <<arr, res, helperPc, twin>>

-----------------------------------------------------------------------------
(* Bounds of the model. *)

MaxDays == 3

MaxDutyTypes == 2

MaxPersons == 3

MaxPatternLength == 2

MaxRuns == 2

MaxArrayLength == 3

MaxValue == 2

(* The smallest dimension handed to the DutySet constructor. *)
MinDimension == 0 - 1

-----------------------------------------------------------------------------
(* JavaScript values. *)

Undefined == "undefined"

True == "true"

False == "false"

length(a) == Cardinality(DOMAIN a)

includes(a, v) == \E k \in DOMAIN a : a[k] = v

push(a, v) == [k \in 0..length(a) |-> IF k < length(a) THEN a[k] ELSE v]

(* Numbers: exact fractions. *)
Num(k) == [num |-> k, den |-> 1]

Plus(a, b) == [num |-> a.num * b.den + b.num * a.den, den |-> a.den * b.den]

Minus(a, b) == [num |-> a.num * b.den - b.num * a.den, den |-> a.den * b.den]

Times(a, b) == [num |-> a.num * b.num, den |-> a.den * b.den]

DividedBy(a, k) == [num |-> a.num, den |-> a.den * k]

Greater(a, b) == a.num * b.den > b.num * a.den

GreaterOrEqual(a, b) == a.num * b.den >= b.num * a.den

SameNumber(a, b) == a.num * b.den = b.num * a.den

-----------------------------------------------------------------------------
(* etc/helpers.js *)

(* An array whose length is the absolute value of len. *)
createFilledArrayOfAbsoluteLength(value, len) ==
    [k \in 0..((IF len < 0 THEN 0 - len ELSE len) - 1) |-> value]

createFilledArray(value, len) == [k \in 0..(len - 1) |-> value]

(* valueFunction is a function of the index. *)
calculateArray(valueFunction, len) == [k \in 0..(len - 1) |-> valueFunction[k]]


(* Math.min(...arr) of a non-empty array. *)
mathMin(a) == CHOOSE m \in {a[k] : k \in DOMAIN a} : \A k \in DOMAIN a : GreaterOrEqual(a[k], m)

(* The test of line 61 with >= for >. *)
isHigherOrEqual(value, highestValue) == GreaterOrEqual(value, highestValue)

(* The test of line 61: the candidate replaces the current best. *)
isHigher(value, highestValue) == Greater(value, highestValue)

(* The test of line 60 left out. *)
notTakenUnchecked(r, j) == TRUE

(* The test of line 60: index j is not yet in the result. *)
notTaken(r, j) == ~includes(r, j)

(* The inner loop of sortIndicesDescending, from index j on. *)
RECURSIVE scanHighest(_, _, _, _, _)
scanHighest(a, r, j, highestIndex, highestValue) ==
    IF j >= length(a) THEN highestIndex
    ELSE IF notTaken(r, j) /\ isHigher(a[j], highestValue)
         THEN scanHighest(a, r, j + 1, j, a[j])
         ELSE scanHighest(a, r, j + 1, highestIndex, highestValue)

(* The outer loop of sortIndicesDescending, from position k on. *)
RECURSIVE fillIndices(_, _, _)
fillIndices(a, r, k) ==
    IF k >= length(r) THEN r
    ELSE fillIndices(a, [r EXCEPT ![k] = scanHighest(a, r, 0, 0 - 1, Minus(mathMin(a), Num(1)))], k + 1)

sortIndicesDescending(a) == fillIndices(a, createFilledArray(0 - 1, length(a)), 0)

-----------------------------------------------------------------------------
(* etc/defaultConfig.js *)

defaultConfig ==
    [scores |-> [unavailableImpact |-> 0 - 50,
                 targetDutyCountMetImpact |-> 0 - 100,
                 belowAverageImpact |-> 50,
                 recentDuty |-> [dayBeforeImpact |-> 0 - 20, numDaysEffect |-> 2]]]

-----------------------------------------------------------------------------
(* models/Person.js: class Person.  A method takes the object as `person`  *)
(* and the DutySet it refers to (this.dutySet) as `dutySet`.               *)

(* The constructor with availability[i] for availability[i % length]: the  *)
(* pattern is not recycled.                                               *)
PersonWithoutRecycling(name, availability, dutySet) ==
    [name |-> name,
     availability |->
        calculateArray([k \in Nat |-> IF k \in DOMAIN availability THEN availability[k]
                                       ELSE Undefined],
                       dutySet.numDays),
     assignments |-> createFilledArray(0 - 1, dutySet.numDays)]

Person(name, availability, dutySet) ==
    [name |-> name,
     availability |->
        calculateArray([k \in Nat |-> IF length(availability) = 0 THEN Undefined
                                       ELSE availability[k % length(availability)]],
                       dutySet.numDays),
     assignments |-> createFilledArray(0 - 1, dutySet.numDays)]

getNumDuties(person, dutySet) ==
    [t \in 0..(dutySet.numDutyTypes - 1) |->
        Cardinality({k \in DOMAIN person.assignments : person.assignments[k] = t})]

getNumDutiesOfType(person, dutySet, typeIndex) == getNumDuties(person, dutySet)[typeIndex]

(* The loop of getNumDaysSincePreviousDuty, from index k down. *)
RECURSIVE scanPreviousDuty(_, _, _)
scanPreviousDuty(person, dayIndex, k) ==
    IF k < 0 THEN 999
    ELSE IF person.assignments[k] # 0 - 1 THEN dayIndex - k
         ELSE scanPreviousDuty(person, dayIndex, k - 1)

(* The loop started at dayIndex instead of dayIndex - 1. *)
getNumDaysSinceDutyFromToday(person, dayIndex) == scanPreviousDuty(person, dayIndex, dayIndex)

getNumDaysSincePreviousDuty(person, dayIndex) == scanPreviousDuty(person, dayIndex, dayIndex - 1)

(* The target of all duty types together: numDutyTypes * numDays / length. *)
getTargetNumDutiesOfAllTypes(dutySet) ==
    createFilledArray(DividedBy(Num(dutySet.numDutyTypes * dutySet.numDays),
                                length(dutySet.persons)),
                      dutySet.numDutyTypes)

getTargetNumDuties(dutySet) ==
    createFilledArray(DividedBy(Num(dutySet.numDays), length(dutySet.persons)),
                      dutySet.numDutyTypes)

getTargetNumDutiesOfType(dutySet, typeIndex) == getTargetNumDuties(dutySet)[typeIndex]

(* The penalty of line 120. *)
sameDayPenalty == 10000

(* The test of line 119 without its first half. *)
isNotOnThisDuty(person, dayIndex, typeIndex) ==
    person.assignments[dayIndex] # typeIndex

(* The test of line 119, with > for the second !==. *)
isOnLaterDuty(person, dayIndex, typeIndex) ==
    person.assignments[dayIndex] # 0 - 1 /\ person.assignments[dayIndex] > typeIndex

(* The test of line 119, with === for the second !==. *)
isOnSameDuty(person, dayIndex, typeIndex) ==
    person.assignments[dayIndex] # 0 - 1 /\ person.assignments[dayIndex] = typeIndex

(* The test of line 119: on duty that day for a different duty type. *)
isOnOtherDuty(person, dayIndex, typeIndex) ==
    person.assignments[dayIndex] # 0 - 1 /\ person.assignments[dayIndex] # typeIndex

(* A bonus that is not in proportion to the distance from the average. *)
belowAverageBonusFlat(person, dutySet, typeIndex, averageDutyAssignments) ==
    Num(dutySet.config.scores.belowAverageImpact)

(* The bonus of lines 114-115. *)
belowAverageBonus(person, dutySet, typeIndex, averageDutyAssignments) ==
    Times(Minus(averageDutyAssignments[typeIndex],
                Num(getNumDutiesOfType(person, dutySet, typeIndex))),
          Num(dutySet.config.scores.belowAverageImpact))

getDutyScoreOfType(person, dutySet, dayIndex, typeIndex, averageDutyAssignments) ==
    LET score0 == Num(100)
        score1 == IF GreaterOrEqual(Num(getNumDutiesOfType(person, dutySet, typeIndex)),
                                    getTargetNumDutiesOfType(dutySet, typeIndex))
                  THEN Plus(score0, Num(dutySet.config.scores.targetDutyCountMetImpact))
                  ELSE score0
        score2 == IF getNumDaysSincePreviousDuty(person, dayIndex)
                        <= dutySet.config.scores.recentDuty.numDaysEffect
                  THEN Plus(score1, Num(dutySet.config.scores.recentDuty.dayBeforeImpact))
                  ELSE score1
        score3 == IF person.availability[dayIndex] = False
                  THEN Plus(score2, Num(dutySet.config.scores.unavailableImpact))
                  ELSE score2
        score4 == IF Greater(averageDutyAssignments[typeIndex],
                             Num(getNumDutiesOfType(person, dutySet, typeIndex)))
                  THEN Plus(score3, belowAverageBonus(person, dutySet, typeIndex,
                                                      averageDutyAssignments))
                  ELSE score3
        score5 == IF isOnOtherDuty(person, dayIndex, typeIndex)
                  THEN Minus(score4, Num(sameDayPenalty))
                  ELSE score4
    IN  score5

(* The setter writing the duty type on every day. *)
setAssignmentOfEveryDay(person, dayIndex, type) ==
    [person EXCEPT !.assignments = [d \in DOMAIN @ |-> type]]

(* The setter writing the number after the duty type. *)
setAssignmentOfNextType(person, dayIndex, type) ==
    [person EXCEPT !.assignments[dayIndex] = type + 1]

setAssignment(person, dayIndex, type) == [person EXCEPT !.assignments[dayIndex] = type]

-----------------------------------------------------------------------------
(* etc/helpers.js: calculateDutyAverage, which calls Person.getNumDuties.  *)

(* The reduce of lines 39-44 over the per-person counts, from person k on. *)
RECURSIVE reduceCounts(_, _, _)
reduceCounts(counts, accumulator, k) ==
    IF k >= length(counts) THEN accumulator
    ELSE reduceCounts(counts,
                      [t \in DOMAIN accumulator |-> accumulator[t] + counts[k][t]],
                      k + 1)

(* `dutySet` is the DutySet the persons refer to (person.dutySet). *)
calculateDutyAverage(personList, numTypes, dutySet) ==
    LET counts == [p \in DOMAIN personList |-> getNumDuties(personList[p], dutySet)]
        sums == reduceCounts(counts, createFilledArray(0, numTypes), 0)
    IN  [t \in DOMAIN sums |-> DividedBy(Num(sums[t]), length(personList))]


-----------------------------------------------------------------------------
(* models/Person.js: class DutySet. *)

(* The object spread {...a, ...b}. *)
spread(a, b) == [k \in DOMAIN a \cup DOMAIN b |-> IF k \in DOMAIN b THEN b[k] ELSE a[k]]

(* obj.key of an object that may lack the key, read as (obj || {}).key || {}. *)
optional(obj, key) == IF key \in DOMAIN obj THEN obj[key] ELSE <<>>

(* The config of the DutySet constructor, lines 171-182. *)
mergeConfig(cfg) ==
    spread(spread(defaultConfig, cfg),
           [scores |->
               spread(spread(defaultConfig.scores, optional(cfg, "scores")),
                      [recentDuty |->
                          spread(defaultConfig.scores.recentDuty,
                                 optional(optional(cfg, "scores"), "recentDuty"))])])

(* The DutySet object of the current state. *)
this == [numDays |-> numDays, numDutyTypes |-> numDutyTypes,
         persons |-> persons, config |-> config]

(* The loop of getAvailabilities over the persons, from person j on. *)
RECURSIVE availableNames(_, _, _, _)
availableNames(dutySet, dayIndex, j, day) ==
    IF j >= length(dutySet.persons) THEN day
    ELSE availableNames(dutySet, dayIndex, j + 1,
                        IF dutySet.persons[j].availability[dayIndex] = True
                        THEN push(day, dutySet.persons[j].name)
                        ELSE day)

(* Rows that leave out the persons who are on duty that day. *)
getAvailabilitiesOfUnassigned(dutySet) ==
    [d \in 0..(dutySet.numDays - 1) |->
        availableNames(
            [dutySet EXCEPT !.persons =
                [p \in DOMAIN dutySet.persons |->
                    IF dutySet.persons[p].assignments[d] # 0 - 1
                    THEN [dutySet.persons[p] EXCEPT !.availability[d] = False]
                    ELSE dutySet.persons[p]]],
            d, 0, <<>>)]

getAvailabilities(dutySet) ==
    [d \in 0..(dutySet.numDays - 1) |-> availableNames(dutySet, d, 0, <<>>)]

(* day.push(name) for day[assignment] = name. *)
storeAtEnd(day, index, value) == push(day, value)

(* day[assignment] = name on a sparse array. *)
store(day, index, value) ==
    [t \in DOMAIN day \cup {index} |-> IF t = index THEN value ELSE day[t]]

(* The loop of getSchedule over the persons, from person j on. *)
RECURSIVE assignedNames(_, _, _, _)
assignedNames(dutySet, dayIndex, j, day) ==
    IF j >= length(dutySet.persons) THEN day
    ELSE assignedNames(dutySet, dayIndex, j + 1,
                       IF dutySet.persons[j].assignments[dayIndex] # 0 - 1
                       THEN store(day, dutySet.persons[j].assignments[dayIndex],
                                  dutySet.persons[j].name)
                       ELSE day)

getSchedule(dutySet) ==
    [d \in 0..(dutySet.numDays - 1) |-> assignedNames(dutySet, d, 0, <<>>)]

(* The scores for averages that were computed once, before any assignment. *)
stepScoresForAveragesOfStart(dutySet, dayIndex, typeIndex) ==
    LET averageDutyAssignments ==
            calculateDutyAverage(
                [p \in DOMAIN dutySet.persons |->
                    [dutySet.persons[p] EXCEPT
                        !.assignments = createFilledArray(0 - 1, dutySet.numDays)]],
                dutySet.numDutyTypes, dutySet)
    IN  [p \in DOMAIN dutySet.persons |->
            getDutyScoreOfType(dutySet.persons[p], dutySet, dayIndex, typeIndex,
                               averageDutyAssignments)]

(* The scores of line 244 for the step (dayIndex, typeIndex). *)
stepScores(dutySet, dayIndex, typeIndex) ==
    LET averageDutyAssignments ==
            calculateDutyAverage(dutySet.persons, dutySet.numDutyTypes, dutySet)
    IN  [p \in DOMAIN dutySet.persons |->
            getDutyScoreOfType(dutySet.persons[p], dutySet, dayIndex, typeIndex,
                               averageDutyAssignments)]

(* The person of line 246: highestScoreIndices[0]. *)
stepWinner(dutySet, dayIndex, typeIndex) ==
    sortIndicesDescending(stepScores(dutySet, dayIndex, typeIndex))[0]

(* The loop header with i < this.numDays - 1. *)
inLoopButLastDay(dutySet, typeIndex, dayIndex) ==
    typeIndex < dutySet.numDutyTypes /\ dayIndex < dutySet.numDays - 1

(* The loop header of lines 240-241: does the loop take a step at       *)
(* (typeIndex, dayIndex)?                                                 *)
inLoop(dutySet, typeIndex, dayIndex) ==
    typeIndex < dutySet.numDutyTypes /\ dayIndex < dutySet.numDays

(* The position after a step with the two loops exchanged. *)
nextPositionDayMajor(dutySet, typeIndex, dayIndex) ==
    IF typeIndex + 1 < dutySet.numDutyTypes
    THEN [dutyType |-> typeIndex + 1, i |-> dayIndex]
    ELSE [dutyType |-> 0, i |-> dayIndex + 1]

(* The position after the step at (typeIndex, dayIndex): i++ and, at the  *)
(* end of the inner loop, dutyType++ with i = 0.                          *)
nextPosition(dutySet, typeIndex, dayIndex) ==
    IF dayIndex + 1 < dutySet.numDays
    THEN [dutyType |-> typeIndex, i |-> dayIndex + 1]
    ELSE [dutyType |-> typeIndex + 1, i |-> 0]

(* The second DutySet before any person is added to it: its persons, the  *)
(* position of its caller and of its loop, and what its calls returned.   *)
freshTwin ==
    [persons |-> <<>>, pc |-> "idle", dutyType |-> 0, i |-> 0,
     log |-> <<>>, returned |-> <<>>]

(* The second DutySet object of the current state: it was constructed with *)
(* the arguments of the first.                                             *)
twinSet == [numDays |-> numDays, numDutyTypes |-> numDutyTypes,
            persons |-> twin.persons, config |-> config]

-----------------------------------------------------------------------------
(* The inputs of the model. *)

(* The names the caller gives, in the order of the README's example; a   *)
(* person added after these is named like the last of them.              *)
Names == <<"Andrey", "Korra", "Anna", "Asami", "Bolin">>

nameOfNext(k) == IF k < Len(Names) THEN Names[k + 1] ELSE Names[Len(Names)]

(* Availability patterns: arrays of booleans of length 0..MaxPatternLength. *)
Patterns ==
    UNION {[0..(n - 1) -> {True, False}] : n \in 0..MaxPatternLength}

(* Caller configs: none, and two overrides of some of the weights. *)
ConfigInputs ==
    { <<>>,
      [scores |-> [unavailableImpact |-> 0 - 20000]],
      [scores |-> [belowAverageImpact |-> 0,
                   recentDuty |-> [numDaysEffect |-> 0]]] }

-----------------------------------------------------------------------------
(* The state machine of a DutySet and its caller. *)

(* new DutySet(numDays, numOnDuty, config) *)
Init ==
    /\ numDays \in MinDimension..MaxDays
    /\ numDutyTypes \in MinDimension..MaxDutyTypes
    /\ config \in {mergeConfig(cfg) : cfg \in ConfigInputs}
    /\ persons = <<>>
    /\ pc = "idle"
    /\ dutyType = 0
    /\ i = 0
    /\ log = <<>>
    /\ returned = <<>>
    /\ arr = <<>>
    /\ res = <<>>
    /\ helperPc = "ready"
    /\ twin = freshTwin

(* dutySet.addPerson(new Person(name, availability, dutySet)) *)
AddPerson ==
    /\ pc # "running"
    /\ length(persons) < MaxPersons
    /\ \E availability \in Patterns :
          persons' = push(persons, Person(nameOfNext(length(persons)), availability, this))
    /\ pc' = "idle"
    /\ UNCHANGED <<numDays, numDutyTypes, config, dutyType, i, log, returned>>
    /\ UNCHANGED helperVars

(* A call of calculateSchedule that first resets every person's assignments. *)
CalcStartAfterReset ==
    /\ pc # "running"
    /\ Len(returned) < MaxRuns
    /\ pc' = "running"
    /\ dutyType' = 0
    /\ i' = 0
    /\ log' = <<>>
    /\ persons' = [p \in DOMAIN persons |->
                     [persons[p] EXCEPT !.assignments = createFilledArray(0 - 1, numDays)]]
    /\ UNCHANGED <<numDays, numDutyTypes, config, returned>>
    /\ UNCHANGED helperVars

(* The call of calculateSchedule: the loop counters are initialised. *)
CalcStart ==
    /\ pc # "running"
    /\ Len(returned) < MaxRuns
    /\ pc' = "running"
    /\ dutyType' = 0
    /\ i' = 0
    /\ log' = <<>>
    /\ UNCHANGED <<numDays, numDutyTypes, config, persons, returned>>
    /\ UNCHANGED helperVars

(* One iteration of the loop body, lines 242-246. *)
CalcStep ==
    /\ pc = "running"
    /\ inLoop(this, dutyType, i)
    /\ length(persons) > 0
    /\ LET winner == stepWinner(this, i, dutyType)
           next == nextPosition(this, dutyType, i)
       IN  /\ persons' = [persons EXCEPT ![winner] = setAssignment(persons[winner], i, dutyType)]
           /\ log' = Append(log, [day |-> i, dutyType |-> dutyType, person |-> winner])
           /\ dutyType' = next.dutyType
           /\ i' = next.i
    /\ UNCHANGED <<numDays, numDutyTypes, config, pc, returned>>
    /\ UNCHANGED helperVars

(* The loop body with no person: highestScoreIndices[0] is undefined and  *)
(* line 246 throws a TypeError.                                           *)
CalcThrow ==
    /\ pc = "running"
    /\ inLoop(this, dutyType, i)
    /\ length(persons) = 0
    /\ pc' = "threw"
    /\ UNCHANGED <<numDays, numDutyTypes, config, persons, dutyType, i, log, returned>>
    /\ UNCHANGED helperVars

(* The loop is over: return this.getSchedule(), line 257. *)
CalcReturn ==
    /\ pc = "running"
    /\ ~inLoop(this, dutyType, i)
    /\ pc' = "done"
    /\ returned' = Append(returned, getSchedule(this))
    /\ UNCHANGED <<numDays, numDutyTypes, config, persons, dutyType, i, log>>
    /\ UNCHANGED helperVars

Next == AddPerson \/ CalcStart \/ CalcStep \/ CalcThrow \/ CalcReturn

Spec == Init /\ [][Next]_vars




-----------------------------------------------------------------------------
(* The README's example: new DutySet(6, 2) and persons with the README's   *)
(* availability patterns.                                                  *)

readmeDays == 6

readmeDutyTypes == 2

readmePatterns ==
    [Andrey |-> <<False, True, True, True, False, True>>,
     Korra  |-> <<True, False, False, False, True, True>>,
     Anna   |-> <<False, True, False, True, False, False>>]

(* A JavaScript array literal: a sequence, indexed from 0. *)
array(seq) == [k \in 0..(Len(seq) - 1) |-> seq[k + 1]]

InitReadme ==
    /\ numDays = readmeDays
    /\ numDutyTypes = readmeDutyTypes
    /\ config = mergeConfig(<<>>)
    /\ persons = <<>>
    /\ pc = "idle"
    /\ dutyType = 0
    /\ i = 0
    /\ log = <<>>
    /\ returned = <<>>
    /\ arr = <<>>
    /\ res = <<>>
    /\ helperPc = "ready"
    /\ twin = freshTwin

(* dutySet.addPerson(new Person(name, pattern, dutySet)) with one of the   *)
(* README's patterns.                                                      *)
AddReadmePerson ==
    /\ pc # "running"
    /\ length(persons) < Cardinality(DOMAIN readmePatterns)
    /\ \E who \in DOMAIN readmePatterns :
          persons' = push(persons, Person(nameOfNext(length(persons)),
                                          array(readmePatterns[who]), this))
    /\ pc' = "idle"
    /\ UNCHANGED <<numDays, numDutyTypes, config, dutyType, i, log, returned>>
    /\ UNCHANGED helperVars

NextReadme == AddReadmePerson \/ CalcStart \/ CalcStep \/ CalcThrow \/ CalcReturn

SpecReadme == InitReadme /\ [][NextReadme]_vars

-----------------------------------------------------------------------------
(* A caller of sortIndicesDescending on an array of numbers.               *)

(* The numbers of the arrays: k and k/2 for small k. *)
Values == {[num |-> k, den |-> d] : k \in (0 - MaxValue)..MaxValue, d \in {1, 2}}

(* The arrays of etc/helpers.test.js, lines 36 and 42. *)
testArrays == {array(<<Num(10), Num(20), Num(30)>>), array(<<Num(0 - 50), Num(30), Num(0)>>)}

InitSort ==
    /\ arr \in testArrays \cup UNION {[0..(n - 1) -> Values] : n \in 0..MaxArrayLength}
    /\ res = <<>>
    /\ helperPc = "ready"
    /\ twin = freshTwin
    /\ numDays = 0
    /\ numDutyTypes = 0
    /\ config = mergeConfig(<<>>)
    /\ persons = <<>>
    /\ pc = "idle"
    /\ dutyType = 0
    /\ i = 0
    /\ log = <<>>
    /\ returned = <<>>

(* res = sortIndicesDescending(arr) *)
SortCall ==
    /\ helperPc = "ready"
    /\ res' = sortIndicesDescending(arr)
    /\ helperPc' = "returned"
    /\ UNCHANGED <<arr, twin>>
    /\ UNCHANGED dutySetVars

NextSort == SortCall

SpecSort == InitSort /\ [][NextSort]_vars


-----------------------------------------------------------------------------
(* Two DutySets constructed with the same arguments, to which the caller   *)
(* adds persons of the same names and patterns in the same order, and on   *)
(* each of which calculateSchedule is called once; the steps of the two    *)
(* calls interleave in any order.                                          *)

InitTwin ==
    /\ numDays \in 0..MaxDays
    /\ numDutyTypes \in 0..MaxDutyTypes
    /\ config \in {mergeConfig(cfg) : cfg \in ConfigInputs}
    /\ persons = <<>>
    /\ pc = "idle"
    /\ dutyType = 0
    /\ i = 0
    /\ log = <<>>
    /\ returned = <<>>
    /\ arr = <<>>
    /\ res = <<>>
    /\ helperPc = "ready"
    /\ twin = freshTwin

(* addPerson(new Person(name, availability, dutySet)) on both DutySets. *)
TwinAddPerson ==
    /\ pc = "idle" /\ twin.pc = "idle"
    /\ length(persons) < MaxPersons
    /\ \E availability \in Patterns :
          /\ persons' = push(persons, Person(nameOfNext(length(persons)), availability, this))
          /\ twin' = [twin EXCEPT !.persons =
                         push(@, Person(nameOfNext(length(@)), availability, twinSet))]
    /\ UNCHANGED <<numDays, numDutyTypes, config, pc, dutyType, i, log, returned>>
    /\ UNCHANGED <<arr, res, helperPc>>

(* The first DutySet's call of calculateSchedule. *)
FirstCalcStart ==
    /\ pc = "idle"
    /\ CalcStart

(* The second DutySet's call of calculateSchedule. *)
TwinCalcStart ==
    /\ twin.pc = "idle"
    /\ pc # "idle"
    /\ twin' = [twin EXCEPT !.pc = "running", !.dutyType = 0, !.i = 0, !.log = <<>>]
    /\ UNCHANGED dutySetVars
    /\ UNCHANGED <<arr, res, helperPc>>

(* An iteration of the second call's loop that reads the scores off the    *)
(* first DutySet's persons.                                                *)
TwinCalcStepOnSharedPersons ==
    /\ twin.pc = "running"
    /\ inLoop(twinSet, twin.dutyType, twin.i)
    /\ length(twin.persons) > 0
    /\ LET winner == stepWinner(this, twin.i, twin.dutyType)
           next == nextPosition(twinSet, twin.dutyType, twin.i)
       IN  twin' = [twin EXCEPT
                       !.persons[winner] = setAssignment(@, twin.i, twin.dutyType),
                       !.log = Append(@, [day |-> twin.i, dutyType |-> twin.dutyType,
                                          person |-> winner]),
                       !.dutyType = next.dutyType,
                       !.i = next.i]
    /\ UNCHANGED dutySetVars
    /\ UNCHANGED <<arr, res, helperPc>>

(* One iteration of the second call's loop body, lines 242-246. *)
TwinCalcStep ==
    /\ twin.pc = "running"
    /\ inLoop(twinSet, twin.dutyType, twin.i)
    /\ length(twin.persons) > 0
    /\ LET winner == stepWinner(twinSet, twin.i, twin.dutyType)
           next == nextPosition(twinSet, twin.dutyType, twin.i)
       IN  twin' = [twin EXCEPT
                       !.persons[winner] = setAssignment(@, twin.i, twin.dutyType),
                       !.log = Append(@, [day |-> twin.i, dutyType |-> twin.dutyType,
                                          person |-> winner]),
                       !.dutyType = next.dutyType,
                       !.i = next.i]
    /\ UNCHANGED dutySetVars
    /\ UNCHANGED <<arr, res, helperPc>>

(* The second call's loop body with no person: the TypeError of line 246. *)
TwinCalcThrow ==
    /\ twin.pc = "running"
    /\ inLoop(twinSet, twin.dutyType, twin.i)
    /\ length(twin.persons) = 0
    /\ twin' = [twin EXCEPT !.pc = "threw"]
    /\ UNCHANGED dutySetVars
    /\ UNCHANGED <<arr, res, helperPc>>

(* The second call's loop is over: return this.getSchedule(), line 257. *)
TwinCalcReturn ==
    /\ twin.pc = "running"
    /\ ~inLoop(twinSet, twin.dutyType, twin.i)
    /\ twin' = [twin EXCEPT !.pc = "done", !.returned = Append(@, getSchedule(twinSet))]
    /\ UNCHANGED dutySetVars
    /\ UNCHANGED <<arr, res, helperPc>>

NextTwin ==
    \/ TwinAddPerson
    \/ FirstCalcStart \/ CalcStep \/ CalcThrow \/ CalcReturn
    \/ TwinCalcStart \/ TwinCalcStep \/ TwinCalcThrow \/ TwinCalcReturn

SpecTwin == InitTwin /\ [][NextTwin]_vars

-----------------------------------------------------------------------------
(* A caller of the Person constructor: new Person(name, arr, dutySet) for  *)
(* a DutySet without persons.                                              *)

(* Availability patterns of length 0..MaxArrayLength. *)
LongPatterns ==
    UNION {[0..(n - 1) -> {True, False}] : n \in 0..MaxArrayLength}

InitPerson ==
    /\ arr \in LongPatterns
    /\ res = <<>>
    /\ helperPc = "ready"
    /\ twin = freshTwin
    /\ numDays \in MinDimension..MaxDays
    /\ numDutyTypes \in MinDimension..MaxDutyTypes
    /\ config = mergeConfig(<<>>)
    /\ persons = <<>>
    /\ pc = "idle"
    /\ dutyType = 0
    /\ i = 0
    /\ log = <<>>
    /\ returned = <<>>

(* res = new Person(name, arr, dutySet) *)
NewPerson ==
    /\ helperPc = "ready"
    /\ res' = Person(nameOfNext(0), arr, this)
    /\ helperPc' = "returned"
    /\ UNCHANGED <<arr, twin>>
    /\ UNCHANGED dutySetVars

NextPerson == NewPerson

SpecPerson == InitPerson /\ [][NextPerson]_vars

-----------------------------------------------------------------------------
(* createFilledArray and calculateArray on their own: arr holds the        *)
(* arguments of the call (a value, a value function and a length), res the *)
(* returned array.                                                         *)

(* The arguments of etc/helpers.test.js, line 4: createFilledArray(50, 5). *)
testValue == 50
testLength == 5

(* The lengths of the calls: negative, zero and positive ones, with the    *)
(* lengths 5, 4 and -1 of the tests.                                       *)
Lengths == ((0 - MaxArrayLength)..MaxArrayLength) \cup {testLength, testLength - 1}

(* The indices of the longest array. *)
Indices == 0..((CHOOSE n \in Lengths : \A m \in Lengths : m <= n) - 1)

(* index => index * 2 of the tests, lines 14 and 19. *)
double == [index \in Indices |-> index * 2]

(* Functions of the index that return a fixed number, the index plus a     *)
(* number or the index times a number.                                     *)
valueFunctions ==
    {[index \in Indices |-> c] : c \in 0..MaxValue}
    \cup {[index \in Indices |-> index + c] : c \in 0..MaxValue}
    \cup {[index \in Indices |-> index * c] : c \in 0..MaxValue}
    \cup {double}

InitArrays ==
    /\ arr \in [value : ((0 - 1)..MaxValue) \cup {testValue},
                valueFunction : valueFunctions,
                len : Lengths]
    /\ res = <<>>
    /\ helperPc = "ready"
    /\ twin = freshTwin
    /\ numDays = 0
    /\ numDutyTypes = 0
    /\ config = mergeConfig(<<>>)
    /\ persons = <<>>
    /\ pc = "idle"
    /\ dutyType = 0
    /\ i = 0
    /\ log = <<>>
    /\ returned = <<>>

(* res = createFilledArray(value, length) *)
CreateFilledArrayCall ==
    /\ helperPc = "ready"
    /\ res' = createFilledArray(arr.value, arr.len)
    /\ helperPc' = "filled"
    /\ UNCHANGED <<arr, twin>>
    /\ UNCHANGED dutySetVars

(* res = calculateArray(valueFunction, length) *)
CalculateArrayCall ==
    /\ helperPc = "ready"
    /\ res' = calculateArray(arr.valueFunction, arr.len)
    /\ helperPc' = "calculated"
    /\ UNCHANGED <<arr, twin>>
    /\ UNCHANGED dutySetVars

NextArrays == CreateFilledArrayCall \/ CalculateArrayCall

SpecArrays == InitArrays /\ [][NextArrays]_vars

-----------------------------------------------------------------------------
(* Notions the properties share. *)

Abs(x) == IF x < 0 THEN 0 - x ELSE x

(* A step of calculateSchedule is due at (i, dutyType) with a person to pick. *)
StepDue == pc = "running" /\ inLoop(this, dutyType, i) /\ length(persons) > 0

(* The call that has just returned is the first one of this DutySet. *)
FirstCallReturned == pc = "done" /\ Len(returned) = 1

(* The person holds a duty type other than t on day d. *)
HasConflict(person, d, t) == person.assignments[d] # 0 - 1 /\ person.assignments[d] # t

(* The most the weighted terms of two scores can differ by. *)
WeightSpread ==
    Abs(config.scores.unavailableImpact) + Abs(config.scores.targetDutyCountMetImpact)
    + Abs(config.scores.recentDuty.dayBeforeImpact)
    + Abs(config.scores.belowAverageImpact) * numDays

(* The 10000 of the same-day penalty outweighs every other term. *)
PenaltyDominates == WeightSpread < 10000

(* Every availability holds booleans only. *)
BooleanAvailability ==
    \A p \in DOMAIN persons : \A d \in DOMAIN persons[p].availability :
        persons[p].availability[d] \in {True, False}

(* Every row of the schedule has one named person for every duty type. *)
AllFilled(schedule) ==
    /\ DOMAIN schedule = 0..(numDays - 1)
    /\ \A d \in DOMAIN schedule :
          /\ DOMAIN schedule[d] = 0..(numDutyTypes - 1)
          /\ \A t \in DOMAIN schedule[d] :
                \E p \in DOMAIN persons :
                    persons[p].name = schedule[d][t] /\ persons[p].assignments[d] = t

-----------------------------------------------------------------------------
(* C1, as stated: for every numDays >= 0, numDutyTypes >= 0 and at least   *)
(* one person, the schedule the first calculateSchedule call returns has   *)
(* numDays rows, each with a named person for every duty type (here for    *)
(* the default config).                                                    *)
C1_AlwaysFilled ==
    (FirstCallReturned /\ numDays >= 0 /\ numDutyTypes >= 0 /\ length(persons) >= 1
        /\ BooleanAvailability /\ config = defaultConfig)
        => AllFilled(returned[1])

(* C1, amended: the same, for at least numDutyTypes persons and weights    *)
(* that the same-day penalty outweighs.                                    *)
C1_FilledWithEnoughPersons ==
    (FirstCallReturned /\ numDays >= 0 /\ numDutyTypes >= 0 /\ length(persons) >= 1
        /\ BooleanAvailability /\ length(persons) >= numDutyTypes /\ PenaltyDominates)
        => AllFilled(returned[1])

(* C1: a first call has returned a schedule of several rows and duty types *)
(* for persons none of whom is available on the first day.                 *)
C1_Witness ==
    /\ FirstCallReturned /\ numDays >= 2 /\ numDutyTypes >= 2
    /\ length(persons) >= numDutyTypes /\ PenaltyDominates
    /\ \A p \in DOMAIN persons : persons[p].availability[0] = False
    /\ AllFilled(returned[1])

-----------------------------------------------------------------------------
(* C2, as stated: at every step (i, dutyType) the person selected has no   *)
(* same-day conflict whenever some other person has none (here for         *)
(* availabilities of booleans).                                            *)
C2_SameDayVeto ==
    (StepDue /\ BooleanAvailability) =>
        LET winner == stepWinner(this, i, dutyType)
        IN  (\E q \in DOMAIN persons : q # winner /\ ~HasConflict(persons[q], i, dutyType))
                => ~HasConflict(persons[winner], i, dutyType)

(* C2, amended: the same, for weights that the same-day penalty outweighs. *)
C2_SameDayVetoWhenDominant ==
    (StepDue /\ PenaltyDominates) =>
        LET winner == stepWinner(this, i, dutyType)
        IN  (\E q \in DOMAIN persons : q # winner /\ ~HasConflict(persons[q], i, dutyType))
                => ~HasConflict(persons[winner], i, dutyType)

(* C2: a step is due where the first person has a same-day conflict and is *)
(* available, and the person selected is a later one who is unavailable.   *)
C2_Witness ==
    /\ StepDue /\ PenaltyDominates
    /\ HasConflict(persons[0], i, dutyType)
    /\ persons[0].availability[i] = True
    /\ LET winner == stepWinner(this, i, dutyType)
       IN  /\ winner # 0
           /\ ~HasConflict(persons[winner], i, dutyType)
           /\ persons[winner].availability[i] = False

-----------------------------------------------------------------------------
(* C3: the steps of a call are taken in the order duty type first, day     *)
(* second: the k-th step of a call is the step for type k \div numDays and *)
(* day k % numDays, and the loop stands at the position after them.        *)
C3_TypeMajorOrder ==
    /\ \A k \in 1..Len(log) :
          /\ log[k].dutyType = (k - 1) \div numDays
          /\ log[k].day = (k - 1) % numDays
    /\ \A k, m \in 1..Len(log) :
          (k < m) <=> \/ log[k].dutyType < log[m].dutyType
                      \/ /\ log[k].dutyType = log[m].dutyType
                         /\ log[k].day < log[m].day
    /\ \A k \in 1..Len(log) :
          log[k].dutyType > 0 =>
              \E m \in 1..(k - 1) :
                  log[m].dutyType = log[k].dutyType - 1 /\ log[m].day = numDays - 1
    /\ StepDue => (dutyType = Len(log) \div numDays /\ i = Len(log) % numDays)

(* C3: a call has taken steps for two duty types over several days.        *)
C3_Witness ==
    /\ pc = "running" /\ numDays >= 2
    /\ Len(log) > numDays
    /\ log[Len(log)].dutyType = 1


-----------------------------------------------------------------------------
(* The persons of the state are those of the README's example, in its order. *)
ReadmeScenario ==
    /\ numDays = readmeDays /\ numDutyTypes = readmeDutyTypes
    /\ config = defaultConfig
    /\ DOMAIN persons = 0..2
    /\ \A k \in 0..2 :
          /\ persons[k].name = Names[k + 1]
          /\ persons[k].availability = array(readmePatterns[Names[k + 1]])

(* The README's SCHEDULE result. *)
readmeSchedule ==
    array(<< array(<<"Korra", "Andrey">>), array(<<"Andrey", "Anna">>),
             array(<<"Anna", "Andrey">>), array(<<"Andrey", "Korra">>),
             array(<<"Korra", "Anna">>), array(<<"Anna", "Korra">>) >>)

(* The README's AVAILABILITIES result. *)
readmeAvailabilities ==
    array(<< array(<<"Korra">>), array(<<"Andrey", "Anna">>), array(<<"Andrey">>),
             array(<<"Andrey", "Anna">>), array(<<"Korra">>), array(<<"Andrey", "Korra">>) >>)

(* C4: the first calculateSchedule call of the README's example returns    *)
(* the README's schedule, and getAvailabilities its availability table.    *)
C4_ReadmeResult ==
    (FirstCallReturned /\ ReadmeScenario) =>
        /\ returned[1] = readmeSchedule
        /\ getAvailabilities(this) = readmeAvailabilities

(* C4: the first call of the README's example has returned.                *)
C4_Witness ==
    /\ FirstCallReturned /\ ReadmeScenario
    /\ Len(log) = readmeDays * readmeDutyTypes
    /\ returned[1][0][0] = "Korra"

-----------------------------------------------------------------------------
(* The position of index x in the result of the sort. *)
PositionOf(x) == CHOOSE k \in DOMAIN res : res[k] = x

(* C5: sortIndicesDescending returns every index of its argument exactly   *)
(* once, and the numbers read in the returned order do not increase; the   *)
(* two arrays of the tests give [2,1,0] and [1,2,0].                       *)
C5_DescendingPermutation ==
    helperPc = "returned" =>
        /\ DOMAIN res = DOMAIN arr
        /\ \A x \in DOMAIN arr : \E k \in DOMAIN res : res[k] = x
        /\ \A k, m \in DOMAIN res : k # m => res[k] # res[m]
        /\ \A k, m \in DOMAIN res : k < m => GreaterOrEqual(arr[res[k]], arr[res[m]])
        /\ arr = array(<<Num(10), Num(20), Num(30)>>) => res = array(<<2, 1, 0>>)
        /\ arr = array(<<Num(0 - 50), Num(30), Num(0)>>) => res = array(<<1, 2, 0>>)

(* C5: an array of three numbers, two of them equal, has been sorted.      *)
C5_Witness ==
    /\ helperPc = "returned"
    /\ length(arr) = 3
    /\ Greater(arr[2], arr[0]) /\ SameNumber(arr[0], arr[1])
    /\ res[0] = 2

-----------------------------------------------------------------------------
(* C6: of two positions holding equal numbers the lower one is listed      *)
(* first, and the first index listed is the lowest index of a maximum.     *)
C6_LowerIndexFirst ==
    helperPc = "returned" =>
        /\ \A x, y \in DOMAIN arr :
              (x < y /\ SameNumber(arr[x], arr[y]) /\ {x, y} \subseteq {res[k] : k \in DOMAIN res})
                  => PositionOf(x) < PositionOf(y)
        /\ length(arr) > 0 =>
              /\ res[0] \in DOMAIN arr
              /\ \A y \in DOMAIN arr : GreaterOrEqual(arr[res[0]], arr[y])
              /\ \A y \in DOMAIN arr : SameNumber(arr[y], arr[res[0]]) => res[0] <= y

(* C6: an array whose maximum stands at two positions, neither the first,  *)
(* has been sorted.                                                        *)
C6_Witness ==
    /\ helperPc = "returned"
    /\ length(arr) = 3
    /\ SameNumber(arr[1], arr[2]) /\ Greater(arr[1], arr[0])
    /\ res = array(<<1, 2, 0>>)


-----------------------------------------------------------------------------
(* The terms of a score, read off the state. *)

Max(S) == CHOOSE x \in S : \A y \in S : y <= x

Days == 0..(numDays - 1)

DutyTypes == 0..(numDutyTypes - 1)

(* The number of days on which person p holds duty type t. *)
CountOf(p, t) == Cardinality({d \in Days : persons[p].assignments[d] = t})

(* The days since the last day before d on which person p holds a duty. *)
GapOf(p, d) ==
    LET earlier == {j \in 0..(d - 1) : persons[p].assignments[j] # 0 - 1}
    IN  IF earlier = {} THEN 999 ELSE d - Max(earlier)

TargetMet(p, t) == CountOf(p, t) * length(persons) >= numDays

RecentlyOnDuty(p, d) == GapOf(p, d) <= config.scores.recentDuty.numDaysEffect

Unavailable(p, d) == persons[p].availability[d] = False

(* The averages a score is asked for: the current one and some others. *)
AverageSamples(t) ==
    {calculateDutyAverage(persons, numDutyTypes, this)[t]}
    \cup {[num |-> k, den |-> length(persons)] : k \in {0, 1, length(persons) * numDays}}
    \cup {[num |-> 1, den |-> 2]}

(* The score of person p for (d, t) when the average of type t is a. *)
ScoreOf(p, d, t, a) ==
    getDutyScoreOfType(persons[p], this, d, t, createFilledArray(a, numDutyTypes))

-----------------------------------------------------------------------------
(* The part of person p's score for (d, t) that the weight                 *)
(* targetDutyCountMetImpact accounts for.                                  *)
TargetPenaltyOf(p, d, t) ==
    LET averages == calculateDutyAverage(persons, numDutyTypes, this)
        unweighted == [this EXCEPT !.config.scores.targetDutyCountMetImpact = 0]
    IN  Minus(getDutyScoreOfType(persons[p], this, d, t, averages),
              getDutyScoreOfType(persons[p], unweighted, d, t, averages))

(* C7, as stated: the target of every duty type is numDutyTypes * numDays  *)
(* / persons.length, and a person's score has the target-met penalty       *)
(* exactly when the person's count of that type is at least that (here for *)
(* the default config and boolean availabilities).                         *)
C7_TargetOfAllTypes ==
    (length(persons) >= 1 /\ numDays >= 1 /\ config = defaultConfig /\ BooleanAvailability) =>
        \A t \in DutyTypes :
            /\ SameNumber(getTargetNumDutiesOfType(this, t),
                          [num |-> numDutyTypes * numDays, den |-> length(persons)])
            /\ \A p \in DOMAIN persons, d \in Days :
                  SameNumber(TargetPenaltyOf(p, d, t),
                             Num(config.scores.targetDutyCountMetImpact))
                      <=> CountOf(p, t) * length(persons) >= numDutyTypes * numDays

(* C7, amended: the target of every duty type is numDays / persons.length, *)
(* and a person's score has the target-met penalty exactly when the        *)
(* person's count of that type is at least that; it has none otherwise.    *)
C7_TargetPerType ==
    (length(persons) >= 1 /\ config.scores.targetDutyCountMetImpact # 0) =>
        \A t \in DutyTypes :
            /\ SameNumber(getTargetNumDutiesOfType(this, t),
                          [num |-> numDays, den |-> length(persons)])
            /\ \A p \in DOMAIN persons, d \in Days :
                  /\ SameNumber(TargetPenaltyOf(p, d, t),
                                Num(config.scores.targetDutyCountMetImpact))
                        <=> CountOf(p, t) * length(persons) >= numDays
                  /\ SameNumber(TargetPenaltyOf(p, d, t), Num(0))
                        <=> CountOf(p, t) * length(persons) < numDays

(* C7: with two duty types, a person's count of a type has reached         *)
(* numDays / persons.length and not numDutyTypes * numDays /               *)
(* persons.length, while another person's count is below both.             *)
C7_Witness ==
    /\ numDutyTypes = 2 /\ length(persons) >= 2
    /\ config.scores.targetDutyCountMetImpact # 0
    /\ \E p, q \in DOMAIN persons :
          /\ CountOf(p, 0) * length(persons) >= numDays
          /\ CountOf(p, 0) * length(persons) < numDutyTypes * numDays
          /\ CountOf(q, 0) * length(persons) < numDays
          /\ SameNumber(TargetPenaltyOf(p, 0, 0), Num(config.scores.targetDutyCountMetImpact))
          /\ SameNumber(TargetPenaltyOf(q, 0, 0), Num(0))

-----------------------------------------------------------------------------
(* The score the claim gives person p for (d, t) and the average a of type *)
(* t: 100 and the five terms, each on its own condition.                   *)
ClaimedScore(p, d, t, a) ==
    LET whole == 100
                 + (IF TargetMet(p, t) THEN config.scores.targetDutyCountMetImpact ELSE 0)
                 + (IF RecentlyOnDuty(p, d) THEN config.scores.recentDuty.dayBeforeImpact ELSE 0)
                 + (IF Unavailable(p, d) THEN config.scores.unavailableImpact ELSE 0)
                 - (IF HasConflict(persons[p], d, t) THEN 10000 ELSE 0)
        deficit == IF a.num > CountOf(p, t) * a.den
                   THEN a.num - CountOf(p, t) * a.den
                   ELSE 0
    IN  [num |-> whole * a.den + deficit * config.scores.belowAverageImpact, den |-> a.den]

(* C8: getDutyScoreOfType returns 100 plus the target-met, recency,        *)
(* unavailability and below-average terms minus the same-day penalty, each *)
(* applied on its own condition, for every person, day, duty type and      *)
(* average.                                                                *)
C8_ScoreFormula ==
    length(persons) >= 1 =>
        \A p \in DOMAIN persons, d \in Days, t \in DutyTypes :
            \A a \in AverageSamples(t) :
                SameNumber(ScoreOf(p, d, t, a), ClaimedScore(p, d, t, a))

(* C8: a person's score carries every one of the five terms at once.       *)
C8_Witness ==
    \E p \in DOMAIN persons, d \in Days, t \in DutyTypes :
        /\ TargetMet(p, t) /\ RecentlyOnDuty(p, d) /\ GapOf(p, d) = 2
        /\ Unavailable(p, d) /\ HasConflict(persons[p], d, t)
        /\ \E a \in AverageSamples(t) :
              /\ a.num > CountOf(p, t) * a.den
              /\ config.scores.belowAverageImpact # 0
              /\ SameNumber(ScoreOf(p, d, t, a), ClaimedScore(p, d, t, a))

-----------------------------------------------------------------------------
(* Persons x and y agree on every condition of a score for (d, t) but the  *)
(* counts.                                                                 *)
AgreeButForCount(x, y, d, t) ==
    /\ TargetMet(x, t) <=> TargetMet(y, t)
    /\ RecentlyOnDuty(x, d) <=> RecentlyOnDuty(y, d)
    /\ Unavailable(x, d) <=> Unavailable(y, d)
    /\ HasConflict(persons[x], d, t) <=> HasConflict(persons[y], d, t)

(* Person x has fewer duties of type t than y and than the average a. *)
FewerThanPeerAndAverage(x, y, t, a) ==
    /\ CountOf(x, t) < CountOf(y, t)
    /\ a.num > CountOf(x, t) * a.den

(* C9: of two persons who agree on every other condition of the score,     *)
(* the one with fewer duties of the type than the other and than the       *)
(* average scores strictly higher, when belowAverageImpact > 0.            *)
C9_FairnessMonotone ==
    config.scores.belowAverageImpact > 0 =>
        \A x, y \in DOMAIN persons, d \in Days, t \in DutyTypes :
            \A a \in AverageSamples(t) :
                (AgreeButForCount(x, y, d, t) /\ FewerThanPeerAndAverage(x, y, t, a))
                    => Greater(ScoreOf(x, d, t, a), ScoreOf(y, d, t, a))

(* C9: two such persons, both below the average.                           *)
C9_Witness ==
    /\ config.scores.belowAverageImpact > 0
    /\ \E x, y \in DOMAIN persons, d \in Days, t \in DutyTypes :
          \E a \in AverageSamples(t) :
              /\ AgreeButForCount(x, y, d, t) /\ FewerThanPeerAndAverage(x, y, t, a)
              /\ a.num > CountOf(y, t) * a.den
              /\ Greater(ScoreOf(x, d, t, a), ScoreOf(y, d, t, a))

-----------------------------------------------------------------------------
(* C10, as stated: with at least one person, day and duty type, the second *)
(* call of calculateSchedule returns a schedule that differs from the      *)
(* first call's (here for the default config and boolean availabilities).  *)
C10_SecondCallDiffers ==
    (pc = "done" /\ Len(returned) = 2
        /\ length(persons) >= 1 /\ numDays >= 1 /\ numDutyTypes >= 1
        /\ config = defaultConfig /\ BooleanAvailability)
        => returned[2] # returned[1]

(* C10, amended: a call of calculateSchedule starts from the assignments   *)
(* the call before left (it does not reset them): when its loop begins,    *)
(* the schedule of the state is the schedule the call before returned.     *)
C10_SecondCallContinues ==
    (pc = "running" /\ Len(log) = 0 /\ Len(returned) >= 1)
        => getSchedule(this) = returned[Len(returned)]

(* C10: a second call has started from a schedule with assignments, and    *)
(* has returned a schedule that differs from the first call's.             *)
C10_Witness ==
    /\ pc = "done" /\ Len(returned) = 2
    /\ \E d \in Days : DOMAIN returned[1][d] # {}
    /\ returned[2] # returned[1]

-----------------------------------------------------------------------------
(* A call of calculateSchedule has returned while no person is registered. *)
ReturnedWithoutPersons == pc = "done" /\ length(persons) = 0

(* The average of line 242 is being computed while no person is registered. *)
AverageWithoutPersons == pc = "running" /\ inLoop(this, dutyType, i) /\ length(persons) = 0

(* C11, as stated: with zero persons, for every numDays >= 0 and           *)
(* numDutyTypes >= 0, a call of calculateSchedule fails and never returns  *)
(* a schedule, and no average that is not a number (a division by zero) is *)
(* produced (here for the default config).                                 *)
C11_EmptyPoolFails ==
    (numDays >= 0 /\ numDutyTypes >= 0 /\ config = defaultConfig) =>
        /\ ~ReturnedWithoutPersons
        /\ AverageWithoutPersons =>
              \A t \in DutyTypes :
                  calculateDutyAverage(persons, numDutyTypes, this)[t].den # 0

-----------------------------------------------------------------------------
(* C12, as stated: no person whose availability holds an entry that is not *)
(* a boolean is ever in the pool (a pattern of length 0 is refused at      *)
(* construction), here for dimensions that are not negative and the       *)
(* default config.                                                         *)
C12_OnlyBooleansInPool ==
    (numDays >= 0 /\ numDutyTypes >= 0 /\ config = defaultConfig) =>
        \A p \in DOMAIN persons : \A d \in DOMAIN persons[p].availability :
            persons[p].availability[d] \in {True, False}

-----------------------------------------------------------------------------
(* The schedule of a DutySet that has numDays rows (none for a negative    *)
(* numDays) and no entry in any row.                                       *)
emptySchedule == [d \in 0..(numDays - 1) |-> <<>>]

(* C13, as stated: a DutySet with a negative numDays or numDutyTypes is    *)
(* never scheduled: no call of calculateSchedule starts on it (here for    *)
(* the default config and a pool that is not empty).                       *)
C13_NoNegativeDimensions ==
    (pc \in {"running", "done", "threw"} /\ config = defaultConfig /\ length(persons) >= 1)
        => (numDays >= 0 /\ numDutyTypes >= 0)

(* C13, amended: a DutySet with a negative numDays or numDutyTypes is      *)
(* accepted and behaves as one with that dimension zero: a person's        *)
(* availability and assignments have max(numDays, 0) entries, a call of    *)
(* calculateSchedule takes no step, does not throw, and returns the        *)
(* schedule of max(numDays, 0) rows without entries.                       *)
C13_NegativeActsAsZero ==
    (numDays < 0 \/ numDutyTypes < 0) =>
        /\ \A p \in DOMAIN persons :
              /\ DOMAIN persons[p].availability = 0..(numDays - 1)
              /\ DOMAIN persons[p].assignments = 0..(numDays - 1)
              /\ \A d \in DOMAIN persons[p].assignments : persons[p].assignments[d] = 0 - 1
        /\ Len(log) = 0
        /\ pc # "threw"
        /\ pc = "running" => ~inLoop(this, dutyType, i)
        /\ \A k \in 1..Len(returned) : returned[k] = emptySchedule

(* C13: a call on a DutySet with numDays < 0, a duty type and persons has  *)
(* returned the schedule without rows.                                     *)
C13_Witness ==
    /\ pc = "done" /\ length(persons) >= 1
    /\ numDays < 0 /\ numDutyTypes >= 1
    /\ returned[1] = <<>>

-----------------------------------------------------------------------------
(* C14: a Person constructed from a pattern of length L >= 1 for a DutySet *)
(* of numDays days has an availability of exactly numDays entries (none    *)
(* for a negative numDays), and entry k is pattern[k mod L]: a longer      *)
(* pattern is truncated, a shorter one repeats.                            *)
C14_AvailabilityExpansion ==
    (helperPc = "returned" /\ length(arr) >= 1) =>
        /\ DOMAIN res.availability = 0..(numDays - 1)
        /\ numDays >= 0 => length(res.availability) = numDays
        /\ \A k \in 0..(numDays - 1) : res.availability[k] = arr[k % length(arr)]
        /\ length(arr) > numDays =>
              \A k \in 0..(numDays - 1) : res.availability[k] = arr[k]

(* C14: a person has been constructed from a pattern of two different      *)
(* entries for three days: the third entry is the pattern's first.         *)
C14_Witness ==
    /\ helperPc = "returned"
    /\ length(arr) = 2 /\ arr[0] # arr[1]
    /\ numDays = 3
    /\ res.availability = array(<<arr[0], arr[1], arr[0]>>)

-----------------------------------------------------------------------------
(* The persons whose availability on day d is true. *)
AvailableOn(d) == {p \in DOMAIN persons : persons[p].availability[d] = True}

(* The DutySet of the state with every assignment cleared. *)
Unassigned ==
    [this EXCEPT !.persons =
        [p \in DOMAIN persons |->
            [persons[p] EXCEPT !.assignments = [d \in DOMAIN @ |-> 0 - 1]]]]

(* A step of a calculateSchedule call: its start, a loop iteration, its    *)
(* throw or its return.                                                    *)
SchedulingStep == CalcStart \/ CalcStep \/ CalcThrow \/ CalcReturn

(* C15: in every state getAvailabilities returns numDays rows, and row d   *)
(* holds exactly the names of the persons whose availability on day d is   *)
(* true, in insertion order; the result is the same whatever the           *)
(* assignments are, and no step of a calculateSchedule call changes it or  *)
(* any person's availability.                                              *)
C15_AvailabilitiesFrame ==
    /\ [](LET rows == getAvailabilities(this)
          IN  /\ DOMAIN rows = 0..(numDays - 1)
              /\ \A d \in DOMAIN rows :
                    /\ DOMAIN rows[d] = 0..(Cardinality(AvailableOn(d)) - 1)
                    /\ \A p \in AvailableOn(d) :
                          rows[d][Cardinality({q \in AvailableOn(d) : q < p})]
                              = persons[p].name
              /\ rows = getAvailabilities(Unassigned))
    /\ [][SchedulingStep =>
              /\ getAvailabilities(this)' = getAvailabilities(this)
              /\ \A p \in DOMAIN persons :
                    persons'[p].availability = persons[p].availability]_vars

(* C15: two calls have returned for three persons of whom the first and    *)
(* the third, and not the second, are available on a day on which the      *)
(* first is on duty: the day's row holds the two names in that order.      *)
C15_Witness ==
    /\ pc = "done" /\ Len(returned) = 2 /\ length(persons) = 3
    /\ \E d \in Days :
          /\ AvailableOn(d) = {0, 2}
          /\ persons[0].assignments[d] # 0 - 1
          /\ getAvailabilities(this)[d] = array(<<persons[0].name, persons[2].name>>)

-----------------------------------------------------------------------------
(* No two persons have the same name. *)
DistinctNames ==
    \A p, q \in DOMAIN persons : persons[p].name = persons[q].name => p = q

(* No two persons hold the same duty type on the same day. *)
AtMostOneHolder ==
    \A p, q \in DOMAIN persons : \A d \in Days :
        (persons[p].assignments[d] # 0 - 1
            /\ persons[p].assignments[d] = persons[q].assignments[d]) => p = q

(* C16: in every state with distinct names and at most one holder of every *)
(* (day, type), getSchedule returns numDays rows, and row d has the name   *)
(* of person p at position t exactly when p's assignment for day d is t:   *)
(* a position without a holder is empty and a person unassigned on day d   *)
(* is nowhere in row d; the schedule a call returns is that view.          *)
C16_ScheduleIsView ==
    (DistinctNames /\ AtMostOneHolder) =>
        LET rows == getSchedule(this)
        IN  /\ DOMAIN rows = 0..(numDays - 1)
            /\ \A d \in DOMAIN rows :
                  /\ DOMAIN rows[d] =
                        {persons[p].assignments[d] : p \in DOMAIN persons} \ {0 - 1}
                  /\ \A p \in DOMAIN persons : \A t \in DOMAIN rows[d] \cup DutyTypes :
                        (t \in DOMAIN rows[d] /\ rows[d][t] = persons[p].name)
                            <=> persons[p].assignments[d] = t
                  /\ \A p \in DOMAIN persons :
                        persons[p].assignments[d] = 0 - 1
                            => \A t \in DOMAIN rows[d] : rows[d][t] # persons[p].name
            /\ pc = "done" => returned[Len(returned)] = rows

(* C16: a call has returned for several persons; on some day the first     *)
(* position of the row is empty, the second holds a name, one person is    *)
(* unassigned, and on another day a later person holds the earlier type.   *)
C16_Witness ==
    /\ pc = "done" /\ length(persons) >= 2 /\ DistinctNames /\ AtMostOneHolder
    /\ BooleanAvailability
    /\ \E d \in Days :
          /\ DOMAIN getSchedule(this)[d] = {1}
          /\ \E p \in DOMAIN persons : persons[p].assignments[d] = 0 - 1
    /\ \E d \in Days : \E p, q \in DOMAIN persons :
          /\ p < q
          /\ persons[p].assignments[d] = 1 /\ persons[q].assignments[d] = 0
          /\ getSchedule(this)[d] = array(<<persons[q].name, persons[p].name>>)

-----------------------------------------------------------------------------
(* Both calls have started and have taken the same number of steps. *)
SameProgress ==
    /\ pc # "idle" /\ twin.pc # "idle"
    /\ Len(log) = Len(twin.log)
    /\ (pc = "running") <=> (twin.pc = "running")

-----------------------------------------------------------------------------
(* The indices whose score is at least every score and greater than every  *)
(* score at a lower index.                                                 *)
ArgMax(scores) ==
    {p \in DOMAIN scores :
        /\ \A q \in DOMAIN scores : GreaterOrEqual(scores[p], scores[q])
        /\ \A q \in DOMAIN scores : q < p => Greater(scores[p], scores[q])}

(* C18: whenever a step (i, dutyType) is due with a pool that is not       *)
(* empty, the step has a winner, who is a person of the pool whose score   *)
(* in that state is at least every person's and greater than every         *)
(* lower-indexed person's, whatever the scores and availabilities are; the *)
(* step assigns (i, dutyType) to that person and changes nothing else of   *)
(* any person.                                                             *)
C18_GreedyArgMax ==
    /\ [](StepDue =>
            /\ stepWinner(this, i, dutyType) \in DOMAIN persons
            /\ ArgMax(stepScores(this, i, dutyType)) = {stepWinner(this, i, dutyType)})
    /\ [][CalcStep =>
            \E w \in ArgMax(stepScores(this, i, dutyType)) :
                /\ persons'[w].assignments[i] = dutyType
                /\ persons' = [persons EXCEPT ![w].assignments[i] = dutyType]
                /\ \A q \in DOMAIN persons : q # w => persons'[q] = persons[q]]_vars

(* C18: after a first step, a step is due at which no person is available, *)
(* every score is negative, the second and the third person have the       *)
(* highest score and the second is the winner.                             *)
C18_Witness ==
    /\ StepDue /\ Len(log) >= 1 /\ length(persons) = 3
    /\ LET scores == stepScores(this, i, dutyType)
       IN  /\ \A p \in DOMAIN persons :
                 persons[p].availability[i] = False /\ Greater(Num(0), scores[p])
           /\ SameNumber(scores[1], scores[2]) /\ Greater(scores[1], scores[0])
           /\ stepWinner(this, i, dutyType) = 1

-----------------------------------------------------------------------------
(* The first call of calculateSchedule on this DutySet is running or has   *)
(* just returned.                                                          *)
FreshRun ==
    \/ pc = "running" /\ Len(returned) = 0
    \/ pc = "done" /\ Len(returned) = 1

(* The person a step of a finished pass assigned still holds that day and  *)
(* duty type; the passes before the loop's current dutyType are finished.  *)
EarlierTypesKept ==
    \A k \in 1..Len(log) :
        log[k].dutyType < dutyType
            => persons[log[k].person].assignments[log[k].day] = log[k].dutyType

(* C19, as stated: in a fresh run, for every pool size, the holder of      *)
(* (day, type) of a finished pass stays the holder through all later       *)
(* steps: no later pass overwrites an assignment of an earlier type (here  *)
(* for the default config and boolean availabilities).                     *)
C19_EarlierTypesFinal ==
    (FreshRun /\ BooleanAvailability /\ config = defaultConfig) => EarlierTypesKept

(* C19, amended: the same, for at least numDutyTypes persons and weights   *)
(* that the same-day penalty outweighs.                                    *)
C19_FinalWithEnoughPersons ==
    (FreshRun /\ length(persons) >= numDutyTypes /\ PenaltyDominates) => EarlierTypesKept

(* C19: a fresh run over several days and two duty types has returned, and *)
(* on some day the only person available holds the first type and another  *)
(* person the second.                                                      *)
C19_Witness ==
    /\ FreshRun /\ pc = "done"
    /\ length(persons) >= numDutyTypes /\ PenaltyDominates
    /\ numDays >= 2 /\ numDutyTypes = 2 /\ Len(log) = numDays * numDutyTypes
    /\ EarlierTypesKept
    /\ \E d \in Days : \E p, q \in DOMAIN persons :
          /\ AvailableOn(d) = {p}
          /\ persons[p].assignments[d] = 0 /\ persons[q].assignments[d] = 1

-----------------------------------------------------------------------------
(* The part of person p's score for (d, t) that the weight dayBeforeImpact *)
(* accounts for.                                                           *)
RecencyPenaltyOf(p, d, t) ==
    LET averages == calculateDutyAverage(persons, numDutyTypes, this)
        unweighted == [this EXCEPT !.config.scores.recentDuty.dayBeforeImpact = 0]
    IN  Minus(getDutyScoreOfType(persons[p], this, d, t, averages),
              getDutyScoreOfType(persons[p], unweighted, d, t, averages))

(* The days before d on which person p holds a duty of any type. *)
EarlierDuties(p, d) == {j \in 0..(d - 1) : persons[p].assignments[j] # 0 - 1}

(* C20: for every person p and day d, getNumDaysSincePreviousDuty(d) is    *)
(* d - j for the largest day j < d on which p holds a duty of any type and *)
(* 999 when there is none; writing any assignment on day d or a later day  *)
(* does not change it; and with numDaysEffect < 999 the score of a person  *)
(* with no duty on an earlier day has no recency penalty.                  *)
C20_RecencyGap ==
    \A p \in DOMAIN persons, d \in Days :
        /\ EarlierDuties(p, d) = {}
              => getNumDaysSincePreviousDuty(persons[p], d) = 999
        /\ EarlierDuties(p, d) # {}
              => getNumDaysSincePreviousDuty(persons[p], d) = d - Max(EarlierDuties(p, d))
        /\ \A e \in d..(numDays - 1), t \in DutyTypes \cup {0 - 1} :
              getNumDaysSincePreviousDuty(setAssignment(persons[p], e, t), d)
                  = getNumDaysSincePreviousDuty(persons[p], d)
        /\ (EarlierDuties(p, d) = {} /\ config.scores.recentDuty.numDaysEffect < 999)
              => \A t \in DutyTypes : SameNumber(RecencyPenaltyOf(p, d, t), Num(0))

(* C20: on the last of three days one person holds a duty that day and on  *)
(* no earlier day and has no recency penalty, and another, on duty on the  *)
(* first day only, is two days from the previous duty and has the penalty. *)
C20_Witness ==
    /\ numDays = 3 /\ numDutyTypes = 2 /\ config = defaultConfig
    /\ \E p, q \in DOMAIN persons :
          /\ persons[p].assignments[2] # 0 - 1 /\ EarlierDuties(p, 2) = {}
          /\ getNumDaysSincePreviousDuty(persons[p], 2) = 999
          /\ SameNumber(RecencyPenaltyOf(p, 2, 1), Num(0))
          /\ EarlierDuties(q, 2) = {0}
          /\ getNumDaysSincePreviousDuty(persons[q], 2) = 2
          /\ SameNumber(RecencyPenaltyOf(q, 2, 1), Num(0 - 20))

-----------------------------------------------------------------------------
(* C21: in every state reached by adding persons and calling               *)
(* calculateSchedule any number of times, every person's assignments and   *)
(* availability are indexed by the days 0..numDays-1 (numDays entries each *)
(* for numDays >= 0), and every entry of assignments is -1 or a duty type  *)
(* in 0..numDutyTypes-1.                                                   *)
C21_Shape ==
    \A p \in DOMAIN persons :
        /\ DOMAIN persons[p].assignments = 0..(numDays - 1)
        /\ DOMAIN persons[p].availability = 0..(numDays - 1)
        /\ numDays >= 0 =>
              /\ length(persons[p].assignments) = numDays
              /\ length(persons[p].availability) = numDays
        /\ \A d \in DOMAIN persons[p].assignments :
              \/ persons[p].assignments[d] = 0 - 1
              \/ /\ persons[p].assignments[d] >= 0
                 /\ persons[p].assignments[d] < numDutyTypes

(* C21: two calls have returned for three persons, three days and two duty *)
(* types, and one person is unassigned on one day and holds each of the    *)
(* two types on the others.                                                *)
C21_Witness ==
    /\ pc = "done" /\ Len(returned) = 2
    /\ numDays = 3 /\ numDutyTypes = 2 /\ length(persons) = 3
    /\ \E p \in DOMAIN persons :
          {persons[p].assignments[d] : d \in Days} = {0 - 1, 0, 1}

-----------------------------------------------------------------------------
(* The number of (person, day) slots that hold duty type u. *)
SlotsHolding(u) ==
    Cardinality({s \in (DOMAIN persons) \X Days : persons[s[1]].assignments[s[2]] = u})

(* The average vector the claim describes: slots holding u by persons.length. *)
SlotAverages == [u \in DutyTypes |-> [num |-> SlotsHolding(u), den |-> length(persons)]]

(* C22: at every step (i, dutyType) the scores are the scores for the      *)
(* average vector of the state at that moment: for every type u the        *)
(* average is the number of slots holding u divided by persons.length, the *)
(* assignment of the step just before included; in a fresh run the entry   *)
(* of the type being filled is i / persons.length and the entries of the   *)
(* later types are 0.                                                      *)
C22_FreshAverages ==
    StepDue =>
        LET averages == calculateDutyAverage(persons, numDutyTypes, this)
        IN  /\ DOMAIN averages = DutyTypes
            /\ \A u \in DutyTypes : SameNumber(averages[u], SlotAverages[u])
            /\ \A p \in DOMAIN persons :
                  SameNumber(stepScores(this, i, dutyType)[p],
                             getDutyScoreOfType(persons[p], this, i, dutyType, SlotAverages))
            /\ Len(log) >= 1 =>
                  /\ persons[log[Len(log)].person].assignments[log[Len(log)].day]
                        = log[Len(log)].dutyType
                  /\ SlotsHolding(log[Len(log)].dutyType) >= 1
            /\ FreshRun =>
                  /\ SameNumber(averages[dutyType], [num |-> i, den |-> length(persons)])
                  /\ \A u \in DutyTypes : u > dutyType => SameNumber(averages[u], Num(0))

(* C22: in a fresh run for three persons a step of the second duty type is *)
(* due on the third day: the average of that type is 2/3, the person of    *)
(* the step before is counted in it, and a person below that average has   *)
(* the below-average bonus in the score.                                   *)
C22_Witness ==
    /\ StepDue /\ FreshRun /\ length(persons) = 3
    /\ dutyType = 1 /\ i = 2
    /\ config.scores.belowAverageImpact > 0
    /\ SameNumber(calculateDutyAverage(persons, numDutyTypes, this)[1], [num |-> 2, den |-> 3])
    /\ log[Len(log)].dutyType = 1 /\ log[Len(log)].day = 1
    /\ \E p \in DOMAIN persons :
          /\ CountOf(p, 1) = 0
          /\ Greater(stepScores(this, i, dutyType)[p],
                     getDutyScoreOfType(persons[p], this, i, dutyType,
                                        createFilledArray(Num(0), numDutyTypes)))

-----------------------------------------------------------------------------
(* A call of calculateSchedule is under way with at least one person. *)
CallUnderWay == pc = "running" /\ length(persons) >= 1

(* The loop is over and the return of line 257 is due. *)
ReturnDue == pc = "running" /\ ~inLoop(this, dutyType, i)

(* The number of iterations of lines 240-241. *)
StepsOfCall == IF numDays > 0 /\ numDutyTypes > 0 THEN numDutyTypes * numDays ELSE 0

(* calculateSchedule is synchronous: once called it runs its loop to the   *)
(* return without waiting for anything. So the loop body is not due for    *)
(* ever without being run, nor the return without being executed (weak     *)
(* fairness of CalcStep and of CalcReturn, with their guards StepDue and   *)
(* ReturnDue for "enabled").                                               *)
SpecFair ==
    /\ Spec
    /\ ([]<>(~StepDue) \/ []<><<CalcStep>>_vars)
    /\ ([]<>(~ReturnDue) \/ []<><<CalcReturn>>_vars)

(* C23: with at least one person, every call of calculateSchedule that is  *)
(* under way takes a step or returns whenever it is in the loop or past    *)
(* it (the person chosen by a due step exists, so the step can be taken),  *)
(* never throws, counts one assignment step per iteration, has returned    *)
(* only after exactly numDutyTypes * numDays steps (none when a dimension  *)
(* is 0), and eventually returns.                                          *)
C23_Termination ==
    /\ [](CallUnderWay =>
            /\ Len(log) <= StepsOfCall
            /\ Len(log) < StepsOfCall <=> StepDue
            /\ Len(log) = StepsOfCall <=> ReturnDue
            /\ StepDue => stepWinner(this, i, dutyType) \in DOMAIN persons)
    /\ []((pc = "done" /\ length(persons) >= 1) => Len(log) = StepsOfCall)
    /\ [][CallUnderWay => (pc' # "threw" /\ (CalcStep => Len(log') = Len(log) + 1))]_vars
    /\ CallUnderWay ~> (pc = "done" /\ Len(log) = StepsOfCall)

(* C23: a call for several persons, three days and two duty types has      *)
(* returned after six steps.                                               *)
C23_Witness ==
    /\ pc = "done" /\ length(persons) >= 2
    /\ numDays = 3 /\ numDutyTypes = 2
    /\ Len(log) = 6 /\ StepsOfCall = 6

-----------------------------------------------------------------------------
(* The person the last step of the call assigned. *)
LastWinner == log[Len(log)].person

(* C24: a step of the loop for (i, dutyType) writes one cell, the           *)
(* assignment of the person with the highest score for day i, which is     *)
(* dutyType afterwards (and was not before, in a fresh run); every other   *)
(* person's assignments, that person's assignments on every other day, all *)
(* availabilities, the persons and their order, numDays, numDutyTypes and  *)
(* the config are unchanged.                                               *)
C24_StepFrame ==
    [][CalcStep =>
        /\ LastWinner' = stepWinner(this, i, dutyType)
        /\ persons'[LastWinner'].assignments[i] = dutyType
        /\ FreshRun => persons[LastWinner'].assignments[i] # dutyType
        /\ DOMAIN persons' = DOMAIN persons
        /\ \A p \in DOMAIN persons :
              /\ persons'[p].name = persons[p].name
              /\ persons'[p].availability = persons[p].availability
              /\ DOMAIN persons'[p].assignments = DOMAIN persons[p].assignments
              /\ \A d \in DOMAIN persons[p].assignments :
                    (p # LastWinner' \/ d # i)
                        => persons'[p].assignments[d] = persons[p].assignments[d]
        /\ numDays' = numDays
        /\ numDutyTypes' = numDutyTypes
        /\ config' = config]_vars

(* C24: the last step gave the second duty type of the second of three     *)
(* days to a person who holds other days as well, next to two more persons *)
(* with assignments.                                                       *)
C24_Witness ==
    /\ pc = "running" /\ Len(log) >= 1
    /\ numDays = 3 /\ length(persons) = 3
    /\ log[Len(log)].day = 1 /\ log[Len(log)].dutyType = 1
    /\ persons[LastWinner].assignments[1] = 1
    /\ \E d \in Days : d # 1 /\ persons[LastWinner].assignments[d] # 0 - 1
    /\ \A p \in DOMAIN persons : \E d \in Days : persons[p].assignments[d] # 0 - 1

-----------------------------------------------------------------------------
(* A first call with the default config and as many persons as duty types, *)
(* or more.                                                                *)
FreshDefaultRun ==
    /\ FreshRun
    /\ config = defaultConfig
    /\ numDutyTypes >= 1
    /\ length(persons) >= numDutyTypes

(* The (person, day) slots that hold a duty type. *)
AssignedSlots == {s \in (DOMAIN persons) \X Days : persons[s[1]].assignments[s[2]] # 0 - 1}

(* The persons on duty on day d. *)
OnDuty(d) == {p \in DOMAIN persons : persons[p].assignments[d] # 0 - 1}

(* C25: in a fresh run with the default config and at least as many        *)
(* persons as duty types (one or more), the person a step selects for day  *)
(* i is unassigned on day i just before the step; after k steps exactly k  *)
(* (person, day) slots are assigned; and when the call has returned, every *)
(* day has numDutyTypes different persons on duty.                         *)
C25_NoOverwrite ==
    /\ [][(CalcStep /\ FreshDefaultRun)
            => persons[LastWinner'].assignments[i] = 0 - 1]_vars
    /\ [](FreshDefaultRun => Cardinality(AssignedSlots) = Len(log))
    /\ []((FreshDefaultRun /\ pc = "done")
            => \A d \in Days : Cardinality(OnDuty(d)) = numDutyTypes)

(* C25: a fresh run with the default config for three persons, two duty    *)
(* types and three days has returned with six slots assigned after six     *)
(* steps, two persons on duty every day, one of them unavailable that day. *)
C25_Witness ==
    /\ FreshDefaultRun /\ pc = "done"
    /\ numDays = 3 /\ numDutyTypes = 2 /\ length(persons) = 3
    /\ Len(log) = 6 /\ Cardinality(AssignedSlots) = 6
    /\ \A d \in Days : Cardinality(OnDuty(d)) = 2
    /\ \E d \in Days : \E p \in OnDuty(d) : persons[p].availability[d] = False

-----------------------------------------------------------------------------
(* The persons holding duty type t on day d. *)
Holders(d, t) == {p \in DOMAIN persons : persons[p].assignments[d] = t}

(* C26: in every state of the first calculateSchedule call of a DutySet,   *)
(* for every day d and duty type t at most one person has assignments[d]   *)
(* = t; and in the state in which the pass for type t finishes, exactly    *)
(* one person holds (d, t) for every day d.                                *)
C26_UniqueHolder ==
    /\ [](FreshRun => \A d \in Days, t \in DutyTypes : Cardinality(Holders(d, t)) <= 1)
    /\ [][(CalcStep /\ FreshRun /\ i = numDays - 1)
            => \A d \in Days :
                  Cardinality({p \in DOMAIN persons' :
                                  persons'[p].assignments[d] = dutyType}) = 1]_vars

(* C26: in a first call for two persons and three days the pass for the    *)
(* first of two duty types has just finished, every day has one holder of  *)
(* that type, and both persons hold it on some day.                        *)
C26_Witness ==
    /\ FreshRun /\ pc = "running"
    /\ numDays = 3 /\ numDutyTypes = 2 /\ length(persons) = 2
    /\ dutyType = 1 /\ i = 0 /\ Len(log) = 3
    /\ \A d \in Days : Cardinality(Holders(d, 0)) = 1
    /\ \A p \in DOMAIN persons : \E d \in Days : persons[p].assignments[d] = 0

-----------------------------------------------------------------------------
(* The (person, day) slots of the state. *)
Slots == (DOMAIN persons) \X Days

(* C27: no step of a calculateSchedule call, first or later, turns an      *)
(* assigned (person, day) slot back to unassigned; and a step of a fresh   *)
(* run changes a slot only from unassigned to a duty type or from a duty   *)
(* type to a strictly larger one.                                          *)
C27_SlotMonotonicity ==
    /\ [][SchedulingStep =>
            \A s \in Slots :
                persons[s[1]].assignments[s[2]] # 0 - 1
                    => persons'[s[1]].assignments[s[2]] # 0 - 1]_vars
    /\ [][(CalcStep /\ FreshRun) =>
            \A s \in Slots :
                \/ persons'[s[1]].assignments[s[2]] = persons[s[1]].assignments[s[2]]
                \/ /\ persons'[s[1]].assignments[s[2]] \in DutyTypes
                   /\ persons'[s[1]].assignments[s[2]] > persons[s[1]].assignments[s[2]]]_vars

(* C27: in a fresh run a person who held the first duty type on a day has  *)
(* been given the second one on that day, while another slot went from     *)
(* unassigned to a duty type.                                              *)
C27_Witness ==
    /\ FreshRun /\ numDutyTypes = 2 /\ numDays >= 2
    /\ \E k, l \in 1..Len(log) :
          /\ k < l
          /\ log[k].person = log[l].person /\ log[k].day = log[l].day
          /\ log[k].dutyType = 0 /\ log[l].dutyType = 1
          /\ persons[log[l].person].assignments[log[l].day] = 1
    /\ \E s \in Slots : persons[s[1]].assignments[s[2]] = 0

-----------------------------------------------------------------------------
(* 100 and the four weighted terms of the score of person p for (d, t) and *)
(* the average a of type t: the score but for the same-day penalty.        *)
ScoreOfWeightedTerms(p, d, t, a) ==
    LET whole == 100
                 + (IF TargetMet(p, t) THEN config.scores.targetDutyCountMetImpact ELSE 0)
                 + (IF RecentlyOnDuty(p, d) THEN config.scores.recentDuty.dayBeforeImpact ELSE 0)
                 + (IF Unavailable(p, d) THEN config.scores.unavailableImpact ELSE 0)
        deficit == IF a.num > CountOf(p, t) * a.den
                   THEN a.num - CountOf(p, t) * a.den
                   ELSE 0
    IN  [num |-> whole * a.den + deficit * config.scores.belowAverageImpact, den |-> a.den]

(* What the score of person p at the due step is short of its weighted     *)
(* terms.                                                                  *)
PenaltyAtStep(p) ==
    LET a == calculateDutyAverage(persons, numDutyTypes, this)[dutyType]
    IN  Minus(ScoreOfWeightedTerms(p, i, dutyType, a), stepScores(this, i, dutyType)[p])

(* C28: at every step of a fresh run a person's score is short of its      *)
(* weighted terms by 10000 or by nothing; by nothing for every person in   *)
(* the pass for duty type 0; and in the pass for a duty type by 10000 only *)
(* for a person who holds a smaller duty type on the day of the step.      *)
C28_FirstPassBlind ==
    (StepDue /\ FreshRun) =>
        \A p \in DOMAIN persons :
            /\ \/ SameNumber(PenaltyAtStep(p), Num(0))
               \/ SameNumber(PenaltyAtStep(p), Num(10000))
            /\ dutyType = 0 => SameNumber(PenaltyAtStep(p), Num(0))
            /\ SameNumber(PenaltyAtStep(p), Num(10000))
                  => persons[p].assignments[i] \in 0..(dutyType - 1)

(* C28: at a step of the pass for the second duty type of a fresh run one  *)
(* person, who holds the first type that day, has the penalty in the score *)
(* and another, unassigned that day, has not.                              *)
C28_Witness ==
    /\ StepDue /\ FreshRun /\ dutyType = 1
    /\ \E p, q \in DOMAIN persons :
          /\ persons[p].assignments[i] = 0
          /\ SameNumber(PenaltyAtStep(p), Num(10000))
          /\ persons[q].assignments[i] = 0 - 1
          /\ SameNumber(PenaltyAtStep(q), Num(0))

-----------------------------------------------------------------------------
(* max(n, 0) *)
AtLeastZero(n) == IF n < 0 THEN 0 ELSE n

(* C29: createFilledArray(v, n) returns an array of length max(n, 0) whose *)
(* every entry is v, and calculateArray(f, n) returns f(0), ..., f(n - 1), *)
(* of length max(n, 0); for a negative n both return the empty array.      *)
C29_ArrayHelpers ==
    /\ helperPc = "filled" =>
          /\ DOMAIN res = 0..(AtLeastZero(arr.len) - 1)
          /\ length(res) = AtLeastZero(arr.len)
          /\ \A k \in DOMAIN res : res[k] = arr.value
    /\ helperPc = "calculated" =>
          /\ DOMAIN res = 0..(AtLeastZero(arr.len) - 1)
          /\ length(res) = AtLeastZero(arr.len)
          /\ \A k \in DOMAIN res : res[k] = arr.valueFunction[k]
    /\ (helperPc \in {"filled", "calculated"} /\ arr.len < 0) => res = <<>>

(* C29: calculateArray(index => index * 2, 4) has returned [0, 2, 4, 6],   *)
(* as in the test.                                                         *)
C29_Witness ==
    /\ helperPc = "calculated"
    /\ arr.valueFunction = double /\ arr.len = 4
    /\ res = array(<<0, 2, 4, 6>>)

====
